---- MODULE Spec2Model ----
(***************************************************************************)
(* Model of mu_time, POSIX platform (src/src/platform/mu_time_posix.c).    *)
(*                                                                         *)
(* mu_time_abs_t is {time_t seconds; long nanoseconds}, both 64-bit signed *)
(* on the supported targets; mu_time_rel_t is int64_t nanoseconds.  The    *)
(* values of interest (INT64_MAX, seconds * 1000000000) do not fit the     *)
(* integers of TLC (32 bits), so every C integer is held as an exact       *)
(* integer in sign/magnitude form, magnitude in base-1000 limbs, least     *)
(* significant first, and every C operation is the exact operation         *)
(* followed by the reduction to the type's width.                          *)
(***************************************************************************)
EXTENDS Integers, Sequences, FiniteSets, TLC

VARIABLES
  x1,       \* a mu_time_abs_t of the caller: the base of the offsets
  x2,       \* a mu_time_abs_t of the caller: the latest result
  del,      \* the mu_time_rel_t passed to the last call that took one
  ret,      \* the mu_time_rel_t the last call returned (zero if it returned none)
  flag,     \* the bool the last call returned (FALSE if it returned none)
  cnt,      \* the number of mu_time_offset calls that lead from x1 to x2
  ovf,      \* whether a signed operation overflowed on the way from x1 to x2
  ts_init,  \* whether the last mu_time_now read a struct timespec that was written
  ms,       \* the uint32_t the last call took or returned (zero if none)
  secs,     \* the float the last call took or returned (zero if none)
  op,       \* the last call
  pc        \* "run", or "trapped" once an undefined operation aborted the process

vars == <<x1, x2, del, ret, flag, cnt, ovf, ts_init, ms, secs, op, pc>>

----------------------------------------------------------------------------
(* Exact integers.                                                         *)

\* base of a limb of a magnitude
LimbBase == 10 * 10 * 10

\* largest small factor: limb * factor + carry stays inside TLC's integers
SmallMax == 2 * LimbBase * LimbBase

RECURSIVE MagTrim(_)
\* drop the most significant zero limbs
MagTrim(m) ==
  IF m = <<>> THEN <<>>
  ELSE IF m[Len(m)] = 0 THEN MagTrim(SubSeq(m, 1, Len(m) - 1))
  ELSE m

RECURSIVE MagOf(_)
\* magnitude of a natural number of TLC
MagOf(n) ==
  IF n = 0 THEN <<>> ELSE <<n % LimbBase>> \o MagOf(n \div LimbBase)

RECURSIVE MagCmpFrom(_, _, _)
\* compare equal-length magnitudes from limb i downwards: -1, 0 or 1
MagCmpFrom(a, b, i) ==
  IF i = 0 THEN 0
  ELSE IF a[i] < b[i] THEN -1
  ELSE IF a[i] > b[i] THEN 1
  ELSE MagCmpFrom(a, b, i - 1)

\* compare two trimmed magnitudes: -1, 0 or 1
MagCmp(a, b) ==
  IF Len(a) < Len(b) THEN -1
  ELSE IF Len(a) > Len(b) THEN 1
  ELSE MagCmpFrom(a, b, Len(a))

\* limb i of a magnitude, zero beyond its length
Limb(m, i) == IF i <= Len(m) THEN m[i] ELSE 0

RECURSIVE MagAddFrom(_, _, _, _)
\* limbs i.. of a + b with incoming carry c
MagAddFrom(a, b, i, c) ==
  IF i > Len(a) /\ i > Len(b)
    THEN (IF c = 0 THEN <<>> ELSE <<c>>)
    ELSE LET s == Limb(a, i) + Limb(b, i) + c
         IN  <<s % LimbBase>> \o MagAddFrom(a, b, i + 1, s \div LimbBase)

MagAdd(a, b) == MagAddFrom(a, b, 1, 0)

RECURSIVE MagSubFrom(_, _, _, _)
\* limbs i.. of a - b with incoming borrow c, for a >= b
MagSubFrom(a, b, i, c) ==
  IF i > Len(a) THEN <<>>
  ELSE LET s == Limb(a, i) - Limb(b, i) - c
       IN  IF s < 0
             THEN <<s + LimbBase>> \o MagSubFrom(a, b, i + 1, 1)
             ELSE <<s>> \o MagSubFrom(a, b, i + 1, 0)

\* a - b for magnitudes with a >= b
MagSub(a, b) == MagTrim(MagSubFrom(a, b, 1, 0))

RECURSIVE MagMulFrom(_, _, _, _)
\* limbs i.. of a * k with incoming carry c, for 0 <= k <= SmallMax
MagMulFrom(a, k, i, c) ==
  IF i > Len(a) THEN MagOf(c)
  ELSE LET p == a[i] * k + c
       IN  <<p % LimbBase>> \o MagMulFrom(a, k, i + 1, p \div LimbBase)

MagMulSmall(a, k) == MagTrim(MagMulFrom(a, k, 1, 0))

RECURSIVE MagDivFrom(_, _, _, _)
\* short division by k, limbs i..1, incoming remainder r: <<quotient limbs
\* (most significant last), remainder>>, for 0 < k <= SmallMax
MagDivFrom(a, k, i, r) ==
  IF i = 0 THEN [q |-> <<>>, r |-> r]
  ELSE LET cur  == r * LimbBase + a[i]
           rest == MagDivFrom(a, k, i - 1, cur % k)
       IN  [q |-> rest.q \o <<cur \div k>>, r |-> rest.r]

\* floor(a / k) and a mod k for a magnitude a and 0 < k <= SmallMax
MagDivSmall(a, k) == MagTrim(MagDivFrom(a, k, Len(a), 0).q)
MagModSmall(a, k) == MagDivFrom(a, k, Len(a), 0).r

\* an exact integer: sign and trimmed magnitude; zero is never negative
ZMake(neg, m) == [neg |-> (neg /\ m # <<>>), mag |-> m]

\* the exact integer of an integer of TLC
Z(n) == IF n < 0 THEN ZMake(TRUE, MagOf(-n)) ELSE ZMake(FALSE, MagOf(n))

ZZero == Z(0)

ZNeg(a) == ZMake(~a.neg, a.mag)

ZAdd(a, b) ==
  IF a.neg = b.neg THEN ZMake(a.neg, MagAdd(a.mag, b.mag))
  ELSE IF MagCmp(a.mag, b.mag) >= 0 THEN ZMake(a.neg, MagSub(a.mag, b.mag))
  ELSE ZMake(b.neg, MagSub(b.mag, a.mag))

ZSub(a, b) == ZAdd(a, ZNeg(b))

\* -1, 0 or 1 as a < b, a = b, a > b
ZCmp(a, b) ==
  IF a.neg /\ ~b.neg THEN -1
  ELSE IF ~a.neg /\ b.neg THEN 1
  ELSE IF a.neg THEN MagCmp(b.mag, a.mag)
  ELSE MagCmp(a.mag, b.mag)

ZLt(a, b) == ZCmp(a, b) < 0
ZLe(a, b) == ZCmp(a, b) <= 0
ZGt(a, b) == ZCmp(a, b) > 0
ZGe(a, b) == ZCmp(a, b) >= 0

ZIsZero(a) == a.mag = <<>>

RECURSIVE MagToInt(_)
\* the value of a magnitude, for a value TLC's integers can hold
MagToInt(m) == IF m = <<>> THEN 0 ELSE m[1] + LimbBase * MagToInt(Tail(m))

ZToInt(a) == IF a.neg THEN -MagToInt(a.mag) ELSE MagToInt(a.mag)

RECURSIVE MagMulAcc(_, _, _)
\* a * (limbs i.. of b) as a magnitude, schoolbook
MagMulAcc(a, b, i) ==
  IF i > Len(b) THEN <<>>
  ELSE MagAdd(MagMulSmall(a, b[i]), MagTrim(<<0>> \o MagMulAcc(a, b, i + 1)))

ZMul(a, b) == ZMake(a.neg # b.neg, MagTrim(MagMulAcc(a.mag, b.mag, 1)))

\* a * k for an integer k of TLC
ZMulInt(a, k) == ZMul(a, Z(k))

RECURSIVE ZQuotInt(_, _)
\* a / k of C: the quotient truncated toward zero, for k > 0; a divisor above
\* SmallMax is a multiple of LimbBase (1000000000 and 15625000 are) and is
\* applied in two steps, floor(floor(m / 1000) / (k / 1000)) = floor(m / k)
ZQuotInt(a, k) ==
  IF k <= SmallMax THEN ZMake(a.neg, MagDivSmall(a.mag, k))
  ELSE ZQuotInt(ZMake(a.neg, MagDivSmall(a.mag, LimbBase)), k \div LimbBase)

\* a % k of C: the remainder has the sign of the dividend
ZRemInt(a, k) == ZSub(a, ZMulInt(ZQuotInt(a, k), k))

\* powers of two are applied 16 bits at a time
ChunkBits == 4 * 4

RECURSIVE ZPow2(_)
\* 2^k
ZPow2(k) ==
  IF k < ChunkBits THEN Z(2 ^ k)
  ELSE ZMulInt(ZPow2(k - ChunkBits), 2 ^ ChunkBits)

RECURSIVE ZShl(_, _)
\* a * 2^k
ZShl(a, k) ==
  IF k < ChunkBits THEN ZMulInt(a, 2 ^ k)
  ELSE ZShl(ZMulInt(a, 2 ^ ChunkBits), k - ChunkBits)

RECURSIVE ZShr(_, _)
\* a / 2^k truncated toward zero
ZShr(a, k) ==
  IF k < ChunkBits THEN ZQuotInt(a, 2 ^ k)
  ELSE ZShr(ZQuotInt(a, 2 ^ ChunkBits), k - ChunkBits)

RECURSIVE ZBitLen(_)
\* the number of bits of |a|: the least k with |a| < 2^k
ZBitLen(a) ==
  IF Len(a.mag) <= 2 /\ MagToInt(a.mag) < 2 ^ ChunkBits
    THEN CHOOSE k \in 0..ChunkBits :
           MagToInt(a.mag) < 2 ^ k /\ (k = 0 \/ MagToInt(a.mag) >= 2 ^ (k - 1))
    ELSE ChunkBits + ZBitLen(ZShr(a, ChunkBits))

----------------------------------------------------------------------------
(* C integer types of the POSIX platform.                                  *)

\* width of mu_time_rel_t (int64_t), and of time_t seconds and long
\* nanoseconds on the supported targets
INT64_BITS == 64

\* width of the uint32_t millisecond count
UINT32_BITS == 32

TwoTo32 == ZPow2(UINT32_BITS)
TwoTo63 == ZPow2(INT64_BITS - 1)
TwoTo64 == ZPow2(INT64_BITS)

INT64_MAX == ZSub(TwoTo63, Z(1))
INT64_MIN == ZNeg(TwoTo63)
UINT32_MAX == ZSub(TwoTo32, Z(1))

\* z is a value of int64_t
FitsInt64(z) == ZGe(z, INT64_MIN) /\ ZLe(z, INT64_MAX)

\* m if it is not negative, m + pow if it is
NonNegative(m, pow) == IF m.neg THEN ZAdd(m, pow) ELSE m

\* a mod 2^bits in [0, 2^bits), given pow = 2^bits
ZModPow2(a, bits, pow) == NonNegative(ZSub(a, ZShl(ZShr(a, bits), bits)), pow)

\* the value of a converted to uint32_t
ToUInt32(a) == ZModPow2(a, UINT32_BITS, TwoTo32)

\* u in [0, 2^64) read as a two's complement int64_t
AsInt64(u) == IF ZGe(u, TwoTo63) THEN ZSub(u, TwoTo64) ELSE u

\* The result of a signed 64-bit operation whose exact value is z: z when it
\* is representable; otherwise the operation overflowed, which is undefined,
\* and this is the two's complement wrap a non-trapping build computes.
WrapInt64(z) ==
  IF FitsInt64(z) THEN z ELSE AsInt64(ZModPow2(z, INT64_BITS, TwoTo64))

I64Add(a, b) == WrapInt64(ZAdd(a, b))
I64Sub(a, b) == WrapInt64(ZSub(a, b))
I64Mul(a, k) == WrapInt64(ZMulInt(a, k))
I64Neg(a) == WrapInt64(ZNeg(a))

----------------------------------------------------------------------------
(* mu_time_posix.c                                                         *)

\* nanoseconds per second, the literal of mu_time_offset and mu_time_difference
NANOS_PER_SEC == 1000000000

\* nanoseconds per millisecond, the literal of the millisecond conversions
NANOS_PER_MILLI == 1000000

AbsTime(s, ns) == [seconds |-> s, nanoseconds |-> ns]

\* "Nanoseconds (0 - 999999999)"
WellFormed(t) ==
  ZGe(t.nanoseconds, ZZero) /\ ZLt(t.nanoseconds, Z(NANOS_PER_SEC))

mu_time_rel_max == INT64_MAX

\* The carry of mu_time_offset without its `result.seconds += 1`: the
\* nanoseconds are reduced and the second they stood for is lost.
CarryLosesSecond(seconds, nanoseconds) ==
  IF ZGe(nanoseconds, Z(NANOS_PER_SEC))
    THEN AbsTime(seconds, I64Sub(nanoseconds, Z(NANOS_PER_SEC)))
    ELSE AbsTime(seconds, nanoseconds)

\* "Handle nanosecond overflow": the if of mu_time_offset, on the two sums
OffsetCarry(seconds, nanoseconds) ==
  IF ZGe(nanoseconds, Z(NANOS_PER_SEC))
    THEN AbsTime(I64Add(seconds, Z(1)), I64Sub(nanoseconds, Z(NANOS_PER_SEC)))
    ELSE AbsTime(seconds, nanoseconds)

mu_time_offset(base, delta) ==
  OffsetCarry(I64Add(base.seconds, ZQuotInt(delta, NANOS_PER_SEC)),
              I64Add(base.nanoseconds, ZRemInt(delta, NANOS_PER_SEC)))

\* some signed operation of mu_time_offset(base, delta) overflows
OffsetOverflows(base, delta) ==
  \/ ~FitsInt64(ZAdd(base.seconds, ZQuotInt(delta, NANOS_PER_SEC)))
  \/ ~FitsInt64(ZAdd(base.nanoseconds, ZRemInt(delta, NANOS_PER_SEC)))
  \/ /\ ZGe(I64Add(base.nanoseconds, ZRemInt(delta, NANOS_PER_SEC)), Z(NANOS_PER_SEC))
     /\ ~FitsInt64(ZAdd(I64Add(base.seconds, ZQuotInt(delta, NANOS_PER_SEC)), Z(1)))

\* mu_time_difference with its operands exchanged, a - b for b - a
DifferenceSwapped(a, b) ==
  I64Add(I64Mul(I64Sub(a.seconds, b.seconds), NANOS_PER_SEC),
         I64Sub(a.nanoseconds, b.nanoseconds))

\* mu_time_difference without `- a.nanoseconds`
DifferenceDropsNanos(a, b) ==
  I64Add(I64Mul(I64Sub(b.seconds, a.seconds), NANOS_PER_SEC), b.nanoseconds)

mu_time_difference(a, b) ==
  I64Add(I64Mul(I64Sub(b.seconds, a.seconds), NANOS_PER_SEC),
         I64Sub(b.nanoseconds, a.nanoseconds))

\* some signed operation of mu_time_difference(a, b) overflows
DifferenceOverflows(a, b) ==
  \/ ~FitsInt64(ZSub(b.seconds, a.seconds))
  \/ ~FitsInt64(ZMulInt(I64Sub(b.seconds, a.seconds), NANOS_PER_SEC))
  \/ ~FitsInt64(ZSub(b.nanoseconds, a.nanoseconds))
  \/ ~FitsInt64(ZAdd(I64Mul(I64Sub(b.seconds, a.seconds), NANOS_PER_SEC),
                     I64Sub(b.nanoseconds, a.nanoseconds)))

\* mu_time_is_before with <= for < on the nanoseconds
IsBeforeOrEqual(a, b) ==
  \/ ZLt(a.seconds, b.seconds)
  \/ (a.seconds = b.seconds /\ ZLe(a.nanoseconds, b.nanoseconds))

mu_time_is_before(a, b) ==
  \/ ZLt(a.seconds, b.seconds)
  \/ (a.seconds = b.seconds /\ ZLt(a.nanoseconds, b.nanoseconds))

mu_time_is_after(a, b) ==
  \/ ZGt(a.seconds, b.seconds)
  \/ (a.seconds = b.seconds /\ ZGt(a.nanoseconds, b.nanoseconds))

\* milliseconds * 1000000 is a product of uint32_t and int, computed in
\* unsigned int (modulo 2^32); the cast to 64 bits follows the product
mu_time_rel_from_millis(milliseconds) ==
  ToUInt32(ZMulInt(milliseconds, NANOS_PER_MILLI))

\* the 64-bit quotient converted to uint32_t (modulo 2^32)
mu_time_rel_to_millis(delta_t) ==
  ToUInt32(ZQuotInt(delta_t, NANOS_PER_MILLI))

----------------------------------------------------------------------------
(* float: IEEE 754 binary32, round to nearest, ties to even.  A float is   *)
(* (-1)^neg * man * 2^exp with man = 0 or 2^23 <= man < 2^24.  Every value *)
(* the conversions meet here lies in the normal range, so the exponent is  *)
(* left unbounded (no subnormals, infinities or NaNs).                     *)

\* significand bits of float (FLT_MANT_DIG)
FLT_MANT_DIG == 24

Float(neg, man, exp) == [neg |-> neg, man |-> man, exp |-> exp]

\* q, an integer of 24 + drop bits followed by a fraction that is nonzero
\* iff rest, with its low drop bits rounded away: to nearest, ties to even
RoundMant(q, drop, rest) ==
  IF \/ q % (2 ^ drop) > 2 ^ (drop - 1)
     \/ /\ q % (2 ^ drop) = 2 ^ (drop - 1)
        /\ (rest \/ (q \div (2 ^ drop)) % 2 = 1)
    THEN q \div (2 ^ drop) + 1
    ELSE q \div (2 ^ drop)

\* a rounded significand that reached 2^24 is 2^23 with the next exponent
Renormalize(neg, man, exp) ==
  IF man = 2 ^ FLT_MANT_DIG THEN Float(neg, man \div 2, exp + 1)
  ELSE Float(neg, man, exp)

\* num * 2^s, truncated toward zero when s < 0
Scale(num, s) == IF s >= 0 THEN ZShl(num, s) ELSE ZShr(num, -s)

\* the scaling removed a nonzero part
ScaleLost(num, s) == s < 0 /\ ZShl(ZShr(num, -s), -s) # num

\* the float nearest to (-1)^neg * (q + fraction) * 2^e, where q has 25 or
\* 26 bits and the fraction is nonzero iff rest
RoundQuotient(neg, q, rest, e) ==
  IF q >= 2 ^ (FLT_MANT_DIG + 1)
    THEN Renormalize(neg, RoundMant(q, 2, rest), e + 2)
    ELSE Renormalize(neg, RoundMant(q, 1, rest), e + 1)

\* the float nearest to (-1)^neg * (num / den) * 2^e, num > 0 exact, den > 0:
\* num is scaled by 2^s so that the quotient has 25 or 26 bits
RoundScaled(neg, num, den, e, s) ==
  RoundQuotient(neg,
                ZToInt(ZQuotInt(Scale(num, s), den)),
                ScaleLost(num, s) \/ ~ZIsZero(ZRemInt(Scale(num, s), den)),
                e - s)

\* round (-1)^neg * (num / den) * 2^e to float
RoundFloat(neg, num, den, e) ==
  IF ZIsZero(num) THEN Float(neg, 0, 0)
  ELSE RoundScaled(neg, num, den, e,
                   FLT_MANT_DIG + 1 - (ZBitLen(num) - ZBitLen(Z(den))))

\* (float)z for an integer z
IntToFloat(z) == RoundFloat(z.neg, ZMake(FALSE, z.mag), 1, 0)

\* f * g in float
FloatMul(f, g) == RoundFloat(f.neg # g.neg, ZMulInt(Z(f.man), g.man), 1, f.exp + g.exp)

\* f / g in float, g nonzero
FloatDiv(f, g) == RoundFloat(f.neg # g.neg, Z(f.man), g.man, f.exp - g.exp)

\* a conversion that rounds toward minus infinity: the integer part of f,
\* less one when f is negative and has a fraction
FloatFloor(f) ==
  IF f.exp >= 0 THEN ZMake(f.neg, ZShl(Z(f.man), f.exp).mag)
  ELSE IF f.neg /\ ZShl(ZShr(Z(f.man), -f.exp), -f.exp) # Z(f.man)
    THEN ZSub(ZMake(TRUE, ZShr(Z(f.man), -f.exp).mag), Z(1))
    ELSE ZMake(f.neg, ZShr(Z(f.man), -f.exp).mag)

\* the integer part of f, the fraction discarded toward zero
FloatTrunc(f) ==
  IF f.exp >= 0 THEN ZMake(f.neg, ZShl(Z(f.man), f.exp).mag)
  ELSE ZMake(f.neg, ZShr(Z(f.man), -f.exp).mag)

\* (mu_time_rel_t)f: the fraction is discarded; an integer part outside
\* int64_t makes the cast undefined, and this is then the "integer
\* indefinite" value an x86-64 build returns
CastInt64(f) == IF FitsInt64(FloatTrunc(f)) THEN FloatTrunc(f) ELSE INT64_MIN

\* delta_t * 1000000000: the int literal is converted to float and the
\* product is a float
SecondsTimesNanos(delta_t) == FloatMul(delta_t, IntToFloat(Z(NANOS_PER_SEC)))

mu_time_rel_from_seconds(delta_t) == CastInt64(SecondsTimesNanos(delta_t))

\* the cast of mu_time_rel_from_seconds(delta_t) is undefined
FromSecondsOverflows(delta_t) == ~FitsInt64(FloatTrunc(SecondsTimesNanos(delta_t)))

\* (float)delta_t / 1000000000.0f
mu_time_rel_to_seconds(delta_t) ==
  FloatDiv(IntToFloat(delta_t), IntToFloat(Z(NANOS_PER_SEC)))

\* struct timespec ts; clock_gettime(CLOCK_REALTIME, &ts); the return value of
\* clock_gettime is not looked at.  ts is declared without an initializer:
\* `stack` is what the memory happens to hold, and clock_gettime writes ts
\* only when it succeeds (ok), with the clock reading `clock`.
clock_gettime(stack, ok, clock) ==
  IF ok THEN [tv_sec |-> clock.seconds, tv_nsec |-> clock.nanoseconds, init |-> TRUE]
  ELSE [tv_sec |-> stack.seconds, tv_nsec |-> stack.nanoseconds, init |-> FALSE]

mu_time_now(ts) == AbsTime(ts.tv_sec, ts.tv_nsec)

----------------------------------------------------------------------------
(* The callers' inputs.                                                    *)

\* longest chain of mu_time_offset calls from one base
MaxOffsets == 2

SecondsIn == {Z(-1), Z(1000), INT64_MAX}
NanosIn == {Z(0), Z(500000000), Z(999999999)}

\* the well-formed timestamps a caller starts from
Times == {AbsTime(s, ns) : s \in SecondsIn, ns \in NanosIn}

\* readings of CLOCK_REALTIME
ClockTimes == {AbsTime(Z(1700000000), Z(123456789))}

\* contents of the uninitialized struct timespec
StackGarbage == {AbsTime(Z(-1), Z(-1)), AbsTime(Z(0), ZMulInt(Z(2), NANOS_PER_SEC))}

\* the literal deltas a caller passes
Deltas ==
  {Z(0), Z(1), Z(-1), Z(500000000), Z(1500000000), Z(-1500000000)}

\* the millisecond counts a caller passes
MillisIn == {Z(0), Z(1), Z(1500), Z(4294), Z(4295), Z(5000), Z(2147483647), UINT32_MAX}

\* the relative times a caller converts
RelIn ==
  {Z(0), Z(1), Z(-1), Z(999999), Z(-1000000), Z(1500000000), Z(-1500000000),
   Z(16777217), INT64_MAX, INT64_MIN}

\* a float given by an integer significand and a binary exponent
FloatOf(m, e) == RoundFloat(m < 0, Z(IF m < 0 THEN -m ELSE m), 1, e)

\* 1.5f
OneAndHalf == FloatOf(3, -1)

\* the seconds a caller converts: 0, 1.5, -1.5, -0.75, 0.1f, 0.001f, 123.456f,
\* 2.5e-9f, -2.5e-9f, 0.9e-9f, -3.7e-9f, 4.0e9f and 9.3e9f (beyond int64_t)
FloatsIn ==
  {FloatOf(0, 0), OneAndHalf, FloatOf(-3, -1), FloatOf(-3, -2),
   FloatOf(13421773, -27), FloatOf(8589935, -33), FloatOf(16181625, -17),
   FloatOf(11258999, -52), FloatOf(-11258999, -52), FloatOf(16212959, -54),
   FloatOf(-16663319, -52), FloatOf(15625000, 8), FloatOf(9082031, 10)}

\* what an out-of-range float to int64_t cast returns on the supported
\* targets: "integer indefinite" (x86-64) or the saturated value (AArch64)
CastOutcomes(f) == {INT64_MIN, IF f.neg THEN INT64_MIN ELSE INT64_MAX}

----------------------------------------------------------------------------
(* The calls.                                                              *)

Init ==
  /\ x1 \in Times
  /\ x2 = x1
  /\ del = ZZero
  /\ ret = ZZero
  /\ flag = FALSE
  /\ cnt = 0
  /\ ovf = FALSE
  /\ ts_init = TRUE
  /\ ms = ZZero
  /\ secs = FloatOf(0, 0)
  /\ op = "none"
  /\ pc = "run"

\* an undefined operation under a trapping build (-ftrapv, a sanitizer)
Trap == pc' = "trapped" /\ UNCHANGED <<x1, x2, del, ret, flag, cnt, ovf, ts_init, ms, secs, op>>

\* t1 = mu_time_now(); the caller starts over from the reading
Now ==
  /\ pc = "run"
  /\ \E ok \in BOOLEAN, clock \in ClockTimes, stack \in StackGarbage :
       LET ts == clock_gettime(stack, ok, clock)
       IN  /\ x1' = mu_time_now(ts)
           /\ x2' = mu_time_now(ts)
           /\ ts_init' = ts.init
  /\ cnt' = 0
  /\ ovf' = FALSE
  /\ ret' = ZZero
  /\ flag' = FALSE
  /\ op' = "now"
  /\ UNCHANGED <<del, ms, secs, pc>>

\* mu_time_rel_max()
RelMax ==
  /\ pc = "run"
  /\ ret' = mu_time_rel_max
  /\ flag' = FALSE
  /\ op' = "rel_max"
  /\ UNCHANGED <<x1, x2, del, cnt, ovf, ts_init, ms, secs, pc>>

\* the deltas of the next mu_time_offset: a literal, or the value that
\* mu_time_rel_max() just returned, as in mu_time_offset(t1, mu_time_rel_max())
NextDeltas == Deltas \cup (IF op = "rel_max" THEN {ret} ELSE {})

\* t2 = mu_time_offset(t1, delta)
Offset ==
  /\ pc = "run"
  /\ \E delta \in NextDeltas :
           \/ /\ x2' = mu_time_offset(x1, delta)
              /\ del' = delta
              /\ cnt' = 1
              /\ ovf' = OffsetOverflows(x1, delta)
              /\ ret' = ZZero
              /\ flag' = FALSE
              /\ op' = "offset"
              /\ UNCHANGED <<x1, ts_init, ms, secs, pc>>
           \/ OffsetOverflows(x1, delta) /\ Trap

\* t2 = mu_time_offset(t2, delta)
OffsetAgain ==
  /\ pc = "run"
  /\ cnt >= 1
  /\ cnt < MaxOffsets
  /\ \E delta \in NextDeltas :
           \/ /\ x2' = mu_time_offset(x2, delta)
              /\ del' = delta
              /\ cnt' = cnt + 1
              /\ ovf' = (ovf \/ OffsetOverflows(x2, delta))
              /\ ret' = ZZero
              /\ flag' = FALSE
              /\ op' = "offset_again"
              /\ UNCHANGED <<x1, ts_init, ms, secs, pc>>
           \/ OffsetOverflows(x2, delta) /\ Trap

\* mu_time_difference(t1, t2)
Difference ==
  /\ pc = "run"
  /\ \/ /\ ret' = mu_time_difference(x1, x2)
        /\ flag' = FALSE
        /\ op' = "difference"
        /\ UNCHANGED <<x1, x2, del, cnt, ovf, ts_init, ms, secs, pc>>
     \/ DifferenceOverflows(x1, x2) /\ Trap

\* mu_time_is_before(t1, t2)
IsBefore ==
  /\ pc = "run"
  /\ flag' = mu_time_is_before(x1, x2)
  /\ ret' = ZZero
  /\ op' = "is_before"
  /\ UNCHANGED <<x1, x2, del, cnt, ovf, ts_init, ms, secs, pc>>

\* mu_time_is_after(t1, t2)
IsAfter ==
  /\ pc = "run"
  /\ flag' = mu_time_is_after(x1, x2)
  /\ ret' = ZZero
  /\ op' = "is_after"
  /\ UNCHANGED <<x1, x2, del, cnt, ovf, ts_init, ms, secs, pc>>

Next ==
  \/ Now
  \/ RelMax
  \/ Offset
  \/ OffsetAgain
  \/ Difference
  \/ IsBefore
  \/ IsAfter

Spec == Init /\ [][Next]_vars

----------------------------------------------------------------------------
(* The unit conversions, called on their own.                              *)

NoFloat == FloatOf(0, 0)

ConvInit ==
  /\ x1 = AbsTime(ZZero, ZZero)
  /\ x2 = x1
  /\ del = ZZero
  /\ ret = ZZero
  /\ flag = FALSE
  /\ cnt = 0
  /\ ovf = FALSE
  /\ ts_init = TRUE
  /\ ms = ZZero
  /\ secs = NoFloat
  /\ op = "none"
  /\ pc = "run"

\* the relative times of the next conversion: a literal, or the value that
\* the last conversion returned, as in mu_time_rel_to_millis(mu_time_rel_from_millis(n))
NextRels == RelIn \cup (IF op \in {"rel_from_millis", "rel_from_seconds"} THEN {ret} ELSE {})

\* mu_time_rel_from_millis(milliseconds)
RelFromMillis ==
  /\ pc = "run"
  /\ \E milliseconds \in MillisIn :
       /\ ms' = milliseconds
       /\ ret' = mu_time_rel_from_millis(milliseconds)
  /\ secs' = NoFloat
  /\ op' = "rel_from_millis"
  /\ UNCHANGED <<x1, x2, del, flag, cnt, ovf, ts_init, pc>>

\* mu_time_rel_to_millis(delta_t)
RelToMillis ==
  /\ pc = "run"
  /\ \E delta_t \in NextRels :
       /\ del' = delta_t
       /\ ms' = mu_time_rel_to_millis(delta_t)
  /\ ret' = ZZero
  /\ secs' = NoFloat
  /\ op' = "rel_to_millis"
  /\ UNCHANGED <<x1, x2, flag, cnt, ovf, ts_init, pc>>

\* mu_time_rel_from_seconds(delta_t)
RelFromSeconds ==
  /\ pc = "run"
  /\ \E delta_t \in FloatsIn :
       \/ /\ secs' = delta_t
          /\ IF FromSecondsOverflows(delta_t)
               THEN ret' \in CastOutcomes(delta_t)
               ELSE ret' = mu_time_rel_from_seconds(delta_t)
          /\ ms' = ZZero
          /\ op' = "rel_from_seconds"
          /\ UNCHANGED <<x1, x2, del, flag, cnt, ovf, ts_init, pc>>
       \/ FromSecondsOverflows(delta_t) /\ Trap

\* mu_time_rel_to_seconds(delta_t)
RelToSeconds ==
  /\ pc = "run"
  /\ \E delta_t \in NextRels :
       /\ del' = delta_t
       /\ secs' = mu_time_rel_to_seconds(delta_t)
  /\ ret' = ZZero
  /\ ms' = ZZero
  /\ op' = "rel_to_seconds"
  /\ UNCHANGED <<x1, x2, flag, cnt, ovf, ts_init, pc>>

ConvNext ==
  \/ RelFromMillis
  \/ RelToMillis
  \/ RelFromSeconds
  \/ RelToSeconds

ConvSpec == ConvInit /\ [][ConvNext]_vars

----------------------------------------------------------------------------
(* Properties of mu_time_offset, mu_time_difference and the comparisons,   *)
(* stated on the calls of Spec: x1 is the caller's t1, x2 its t2, del the  *)
(* delta of the last offset, ret and flag the value the last call returned.*)

\* C1: for every well-formed base and every delta, positive, zero or
\* negative, the nanoseconds of mu_time_offset(base, delta) are again in
\* [0, 1000000000).  (Stated for offsets none of whose sums overflows.)
C1_OffsetNanosInRange ==
  (op = "offset" /\ WellFormed(x1) /\ ~ovf) => WellFormed(x2)

\* mu_time_offset({1000, 0}, -1) has returned {1000, -1}
C1_NegativeNanosReturned ==
  /\ op = "offset"
  /\ x1 = AbsTime(Z(1000), Z(0))
  /\ del = Z(-1)
  /\ x2 = AbsTime(Z(1000), Z(-1))

\* C2: for every well-formed t and every d, positive, zero or negative, with
\* t + d in range, mu_time_difference(t, mu_time_offset(t, d)) = d.
C2_DifferenceOfOffset ==
  (op = "difference" /\ cnt = 1 /\ WellFormed(x1) /\ ~ovf) => ret = del

\* the difference has returned a negative d whose offset borrowed from the
\* nanoseconds
C2_NegativeDeltaRecovered ==
  /\ op = "difference"
  /\ cnt = 1
  /\ WellFormed(x1)
  /\ ~ovf
  /\ del.neg
  /\ ZLt(x2.nanoseconds, ZZero)
  /\ ret = del

\* C3: mu_time_now never returns a value built from uninitialized data: when
\* clock_gettime fails it returns a defined fallback instead.
C3_NowIsInitialized ==
  op = "now" => ts_init

\* mu_time_now has returned the contents of the unwritten struct timespec
C3_GarbageReturned ==
  op = "now" /\ ~ts_init /\ x1 \in StackGarbage

\* C5: for any well-formed t, mu_time_offset(t, mu_time_rel_max()) is after
\* t: mu_time_is_before(t, result) is true and mu_time_is_before(result, t)
\* is false.
C5_RelMaxIsAfter ==
  (op = "offset" /\ del = mu_time_rel_max /\ WellFormed(x1))
    => (mu_time_is_before(x1, x2) /\ ~mu_time_is_before(x2, x1))

\* the offset by mu_time_rel_max() of a time whose seconds are INT64_MAX has
\* returned a time before it
C5_WrappedIntoThePast ==
  /\ op = "offset"
  /\ del = mu_time_rel_max
  /\ x1.seconds = INT64_MAX
  /\ WellFormed(x1)
  /\ mu_time_is_before(x2, x1)

\* C6: for a well-formed and b well-formed or produced from a well-formed
\* time by mu_time_offset calls without overflow, mu_time_is_before(a, b)
\* holds exactly when mu_time_difference(a, b) > 0 and mu_time_is_after(a, b)
\* exactly when mu_time_difference(a, b) < 0.
C6_OrderIsSignOfDifference ==
  (WellFormed(x1) /\ ~ovf /\ ~DifferenceOverflows(x1, x2))
    => /\ op = "is_before" => (flag <=> ZGt(mu_time_difference(x1, x2), ZZero))
       /\ op = "is_after" => (flag <=> ZLt(mu_time_difference(x1, x2), ZZero))

\* mu_time_is_before(t1, t2) has returned true for a t2, two offsets from t1,
\* whose difference from t1 is 0
C6_BeforeWithZeroDifference ==
  /\ op = "is_before"
  /\ flag
  /\ WellFormed(x1)
  /\ ~ovf
  /\ cnt = 2
  /\ ZIsZero(mu_time_difference(x1, x2))

\* C7: for all a and b, mu_time_difference(a, b) = -mu_time_difference(b, a).
C7_DifferenceAntisymmetric ==
  op = "difference" => ret = I64Neg(mu_time_difference(x2, x1))

\* a nonzero difference of two times that differ in seconds and nanoseconds
C7_NonzeroDifference ==
  /\ op = "difference"
  /\ ~ZIsZero(ret)
  /\ x1.seconds # x2.seconds
  /\ x1.nanoseconds # x2.nanoseconds
  /\ ~ZIsZero(x1.nanoseconds)
  /\ ret = I64Neg(mu_time_difference(x2, x1))

\* exactly one of p, q, r
ExactlyOne(p, q, r) ==
  (p \/ q \/ r) /\ ~(p /\ q) /\ ~(p /\ r) /\ ~(q /\ r)

\* C8: mu_time_is_before and mu_time_is_after are a strict total order: for
\* all a and b, mu_time_is_before(a, b) = mu_time_is_after(b, a), exactly one
\* of mu_time_is_before(a, b), mu_time_is_before(b, a), a = b holds, and
\* mu_time_is_before(a, a) and mu_time_is_after(a, a) are false.
C8_StrictTotalOrder ==
  /\ op = "is_before" => flag = mu_time_is_after(x2, x1)
  /\ op = "is_after" => flag = mu_time_is_before(x2, x1)
  /\ op = "is_before" => ExactlyOne(flag, mu_time_is_before(x2, x1), x1 = x2)
  /\ (op \in {"is_before", "is_after"} /\ x1 = x2) => ~flag
  /\ ~mu_time_is_before(x2, x2)
  /\ ~mu_time_is_after(x2, x2)

\* mu_time_is_before has returned true for two times with the same seconds
C8_DecidedByNanoseconds ==
  /\ op = "is_before"
  /\ flag
  /\ x1.seconds = x2.seconds
  /\ mu_time_is_after(x2, x1)

\* C10: for every well-formed t and every d with t + d in range,
\* mu_time_offset(t, d) is after t exactly when d > 0, before t exactly when
\* d < 0, and equal to t field for field exactly when d = 0.
C10_SignGivesDirection ==
  (op = "offset" /\ WellFormed(x1) /\ ~ovf)
    => /\ mu_time_is_after(x2, x1) <=> ZGt(del, ZZero)
       /\ mu_time_is_before(x2, x1) <=> ZLt(del, ZZero)
       /\ x2 = x1 <=> ZIsZero(del)

\* a positive offset whose nanoseconds carried into the seconds
C10_PositiveDeltaCarried ==
  /\ op = "offset"
  /\ WellFormed(x1)
  /\ ~ovf
  /\ ZGt(del, ZZero)
  /\ ZLt(x2.nanoseconds, x1.nanoseconds)
  /\ mu_time_is_after(x2, x1)

\* C11: offsets compose additively: for every well-formed t and all d1, d2,
\* positive, zero or negative, with no overflow,
\* mu_time_offset(mu_time_offset(t, d1), d2) has the same seconds and
\* nanoseconds as mu_time_offset(t, d1 + d2).  Stated on the second offset
\* of a chain: before it x2 = mu_time_offset(x1, del) with del = d1, and it
\* passes del' = d2.
C11_OffsetsCompose ==
  [][(/\ op' = "offset_again"
      /\ cnt = 1
      /\ cnt' = 2
      /\ WellFormed(x1)
      /\ x2 = mu_time_offset(x1, del)
      /\ ~ovf'
      /\ FitsInt64(ZAdd(del, del'))
      /\ ~OffsetOverflows(x1, ZAdd(del, del')))
       => x2' = mu_time_offset(x1, ZAdd(del, del'))]_vars

\* mu_time_offset(mu_time_offset({1000, 999999999}, 1), -1) has returned
\* {1001, -1}, where mu_time_offset({1000, 999999999}, 0) is {1000, 999999999}
C11_SplitChangesFields ==
  /\ op = "offset_again"
  /\ cnt = 2
  /\ ~ovf
  /\ x1 = AbsTime(Z(1000), Z(999999999))
  /\ del = Z(-1)
  /\ x2 = AbsTime(Z(1001), Z(-1))
  /\ mu_time_offset(x1, ZZero) = x1

----------------------------------------------------------------------------
(* Properties of the unit conversions, stated on the calls of ConvSpec: ms *)
(* is the millisecond count, secs the float seconds, del the relative time *)
(* converted, ret the relative time returned.                              *)

\* C4: for every 32-bit unsigned n, mu_time_rel_from_millis(n) is n scaled by
\* 1000000 and mu_time_rel_to_millis(mu_time_rel_from_millis(n)) = n.
C4_MillisRoundTrip ==
  op = "rel_from_millis"
    => /\ ret = ZMulInt(ms, NANOS_PER_MILLI)
       /\ mu_time_rel_to_millis(ret) = ms

\* mu_time_rel_from_millis(4295) has returned 32704, which
\* mu_time_rel_to_millis takes to 0
C4_ProductWrapped ==
  /\ op = "rel_from_millis"
  /\ ms = Z(4295)
  /\ ret = Z(32704)
  /\ mu_time_rel_to_millis(ret) = ZZero

ZAbs(a) == ZMake(FALSE, a.mag)

Min(i, j) == IF i <= j THEN i ELSE j

\* |f| / 2^e for a float f and e <= f.exp
FloatMag(f, e) == ZShl(Z(f.man), f.exp - e)

\* z = |p| with the fraction discarded: z <= |p| < z + 1
IsIntegerPartOf(z, p) ==
  /\ ZLe(ZShl(z, -Min(p.exp, 0)), FloatMag(p, Min(p.exp, 0)))
  /\ ZLt(FloatMag(p, Min(p.exp, 0)), ZShl(ZAdd(z, Z(1)), -Min(p.exp, 0)))

\* p is x * 1000000000 to the precision of float: |p - x * 10^9| <= 2^-24 * |x * 10^9|
IsProductOf(p, x) ==
  /\ (p.man # 0 => p.neg = x.neg)
  /\ ZLe(ZShl(ZAbs(ZSub(FloatMag(p, Min(p.exp, x.exp)),
                        ZMulInt(FloatMag(x, Min(p.exp, x.exp)), NANOS_PER_SEC))),
              FLT_MANT_DIG),
         ZMulInt(FloatMag(x, Min(p.exp, x.exp)), NANOS_PER_SEC))

\* x is z / 1000000000 to the precision of float, (float)z and the quotient
\* each rounded once: |x * 10^9 - z| <= 2^-22 * |z|
IsQuotientOf(x, z) ==
  /\ (x.man # 0 => x.neg = z.neg)
  /\ ZLe(ZShl(ZAbs(ZSub(ZMulInt(FloatMag(x, Min(x.exp, 0)), NANOS_PER_SEC),
                        ZShl(ZAbs(z), -Min(x.exp, 0)))),
              FLT_MANT_DIG - 2),
         ZShl(ZAbs(z), -Min(x.exp, 0)))

\* |p| < 2^63
BelowTwoTo63(p) == p.exp < 0 \/ ZLt(FloatMag(p, 0), TwoTo63)

\* C9: mu_time_rel_from_seconds(x) is x multiplied by 1000000000 with the
\* fraction discarded toward zero, for positive and negative x;
\* mu_time_rel_to_seconds(d) is d divided by 1000000000;
\* mu_time_rel_from_seconds(1.5) = 1500000000 and
\* mu_time_rel_to_seconds(1500000000) = 1.5.  (The product and the quotient
\* are float values; the product lies within int64_t.)
C9_SecondsTruncateTowardZero ==
  /\ (op = "rel_from_seconds" /\ BelowTwoTo63(SecondsTimesNanos(secs)))
       => /\ IsProductOf(SecondsTimesNanos(secs), secs)
          /\ IsIntegerPartOf(ZAbs(ret), SecondsTimesNanos(secs))
          /\ (~ZIsZero(ret) => ret.neg = secs.neg)
  /\ op = "rel_to_seconds" => IsQuotientOf(secs, del)
  /\ (op = "rel_from_seconds" /\ secs = OneAndHalf) => ret = Z(1500000000)
  /\ (op = "rel_to_seconds" /\ del = Z(1500000000)) => secs = OneAndHalf

\* mu_time_rel_from_seconds(-2.5e-9f) has returned -2, not -3
C9_NegativeFractionDiscarded ==
  /\ op = "rel_from_seconds"
  /\ secs = FloatOf(-11258999, -52)
  /\ ret = Z(-2)

====
